---------------------------- MODULE Spec2Model ----------------------------
(***************************************************************************)
(* Model of MLTrader/prepare_dataset/prepare.py: the sliding-window        *)
(* sampler, the Dataset value with its __add__, and the time-block         *)
(* train/validation partitioner.                                           *)
(*                                                                         *)
(* Time is counted in seconds since the Unix epoch (the CSV holds integer   *)
(* milliseconds; every timestamp of the model is a whole second).          *)
(* A DataFrame is a sequence of rows; a row is a sequence of seven cells:  *)
(* OpenTime, CloseTime, four price cells and one trailing cell.            *)
(* An ndarray is a record [shape, data]: data is the sequence of its       *)
(* entries along axis 0 and shape is numpy's shape tuple.                  *)
(***************************************************************************)
EXTENDS Integers, Sequences, FiniteSets, TLC

VARIABLES
    \* split_train_validation's locals
    df, training_data, validation_data, start_date, end_date, current_date,
    pc,        \* "loop" at the head of the while, "done" after return, "TypeError" after a raise
    cursors,   \* history: current_date at each iteration begun, in order
    \* harness of sliding_window_sample_datapoints
    s_df, s_ret, s_pc,
    \* harness of Dataset.__add__
    a_A, a_B, a_C, a_left, a_right, a_pc

vars == << df, training_data, validation_data, start_date, end_date, current_date,
           pc, cursors, s_df, s_ret, s_pc, a_A, a_B, a_C, a_left, a_right, a_pc >>

part_vars == << df, training_data, validation_data, start_date, end_date,
                current_date, pc, cursors >>
samp_vars == << s_df, s_ret, s_pc >>
add_vars == << a_A, a_B, a_C, a_left, a_right, a_pc >>

---------------------------------------------------------------------------
(* Module constants, prepare.py lines 8-16 *)

SPLIT_PER_DAY == 23
TRAINING_DAY == 20
VALIDATION_DAY == SPLIT_PER_DAY - TRAINING_DAY

BAR_PER_DATAPOINT == 2 * 24 * (60 \div 15)
OUTPUT_BAR_PER_DATAPOINT == 4 * (60 \div 15)
INPUT_BAR_PER_DATAPOINT == BAR_PER_DATAPOINT - OUTPUT_BAR_PER_DATAPOINT

DIMENSION_PER_BAR == 4

\* the step of range(0, len(df) - BAR_PER_DATAPOINT + 1, 3)
STRIDE == 3

\* pd.Timedelta(days=d), in seconds
Timedelta(d) == d * 24 * 60 * 60

---------------------------------------------------------------------------
(* DataFrame rows *)

OpenTime(row) == row[1]
CloseTime(row) == row[2]

\* df.iloc[lo:hi] with 0-based, end-exclusive bounds, clipped as pandas clips
iloc(d, lo, hi) ==
    LET h == IF hi > Len(d) THEN Len(d) ELSE hi
    IN  IF lo >= h THEN << >> ELSE SubSeq(d, lo + 1, h)

---------------------------------------------------------------------------
(* ndarray and Dataset *)

ndarray(shape, data) == [shape |-> shape, data |-> data]

\* np.concatenate((a, b), axis=0): the trailing dimensions must agree
ValueError == [type |-> "ValueError"]

concatenate(a, b) ==
    IF Tail(a.shape) = Tail(b.shape)
    THEN ndarray(<< a.shape[1] + b.shape[1] >> \o Tail(a.shape), a.data \o b.data)
    ELSE ValueError

Dataset(X, Y) == [type |-> "Dataset", X |-> X, Y |-> Y]

\* the plain list [] of line 50
EmptyList == [type |-> "list", items |-> << >>]

NotImplemented == [type |-> "NotImplemented"]
TypeError == [type |-> "TypeError"]

MutAddSwapped(self, other) ==
    IF other.type # "Dataset"
    THEN NotImplemented
    ELSE Dataset(concatenate(other.X, self.X), concatenate(self.Y, other.Y))

Dataset__add__(self, other) ==
    IF other.type # "Dataset"
    THEN NotImplemented
    ELSE Dataset(concatenate(self.X, other.X), concatenate(self.Y, other.Y))

\* Python's  x + y  for a Dataset x: x.__add__(y), and since neither list nor
\* Dataset defines __radd__, a NotImplemented result raises TypeError
Plus(x, y) ==
    LET r == Dataset__add__(x, y)
    IN  IF r.type = "NotImplemented" THEN TypeError ELSE r

empty_dataset ==
    Dataset(ndarray(<< 0, INPUT_BAR_PER_DATAPOINT, DIMENSION_PER_BAR >>, << >>),
            ndarray(<< 0, OUTPUT_BAR_PER_DATAPOINT, DIMENSION_PER_BAR >>, << >>))

\* df.values[:, 2:6].reshape((1, -1, DIMENSION_PER_BAR)).astype(np.float64)
MutExtractShifted(d) ==
    ndarray(<< 1, (Len(d) * 4) \div DIMENSION_PER_BAR, DIMENSION_PER_BAR >>,
            << [i \in 1..Len(d) |-> SubSeq(d[i], 4, 7)] >>)

extract_open_close_high_low(d) ==
    ndarray(<< 1, (Len(d) * 4) \div DIMENSION_PER_BAR, DIMENSION_PER_BAR >>,
            << [i \in 1..Len(d) |-> SubSeq(d[i], 3, 6)] >>)

---------------------------------------------------------------------------
(* sliding_window_sample_datapoints *)

\* the body of the for loop, lines 53-56, for one start_idx
LoopBody(d, dataset, start_idx) ==
    LET data_point == iloc(d, start_idx, start_idx + BAR_PER_DATAPOINT)
        input_data == extract_open_close_high_low(
                          iloc(data_point, 0, INPUT_BAR_PER_DATAPOINT))
        output_data == extract_open_close_high_low(
                          iloc(data_point, INPUT_BAR_PER_DATAPOINT, Len(data_point)))
    IN  Plus(dataset, Dataset(input_data, output_data))

\* the for loop over the lo-th .. hi-th values of the range, in order; the
\* accumulator is threaded left to right exactly as the loop does, the index
\* interval is halved only to keep the evaluation shallow
RECURSIVE ForLoop(_, _, _, _)
ForLoop(d, dataset, lo, hi) ==
    IF lo > hi THEN dataset
    ELSE IF lo = hi THEN LoopBody(d, dataset, STRIDE * lo)
    ELSE LET mid == (lo + hi) \div 2
             first == ForLoop(d, dataset, lo, mid)
         IN  IF first.type # "Dataset" THEN first   \* a raise ends the loop
             ELSE ForLoop(d, first, mid + 1, hi)

\* len(range(0, stop, STRIDE))
RangeLen(stop) == IF stop <= 0 THEN 0 ELSE (stop + STRIDE - 1) \div STRIDE

MutSamplerOffByOne(d) ==
    IF Len(d) < BAR_PER_DATAPOINT
    THEN EmptyList
    ELSE ForLoop(d, empty_dataset, 0, RangeLen(Len(d) - BAR_PER_DATAPOINT) - 1)

sliding_window_sample_datapoints(d) ==
    IF Len(d) < BAR_PER_DATAPOINT
    THEN EmptyList
    ELSE ForLoop(d, empty_dataset, 0, RangeLen(Len(d) - BAR_PER_DATAPOINT + 1) - 1)

---------------------------------------------------------------------------
(* split_train_validation *)

\* the two boolean-mask selections of lines 77-83; SelectSeq keeps row order
MutTrainingWholeBlock(d, cur) ==
    LET training_start == cur
        training_end == cur + Timedelta(SPLIT_PER_DAY)
        Keep(row) == OpenTime(row) >= training_start /\ CloseTime(row) < training_end
    IN  SelectSeq(d, Keep)

training_df(d, cur) ==
    LET training_start == cur
        training_end == cur + Timedelta(TRAINING_DAY)
        Keep(row) == OpenTime(row) >= training_start /\ CloseTime(row) < training_end
    IN  SelectSeq(d, Keep)

MutValidationFromBlockStart(d, cur) ==
    LET validation_start == cur
        validation_end == cur + Timedelta(SPLIT_PER_DAY)
        Keep(row) == OpenTime(row) >= validation_start /\ CloseTime(row) < validation_end
    IN  SelectSeq(d, Keep)

MutValidationInclusive(d, cur) ==
    LET validation_start == cur + Timedelta(TRAINING_DAY)
        validation_end == cur + Timedelta(SPLIT_PER_DAY)
        Keep(row) == OpenTime(row) >= validation_start /\ CloseTime(row) <= validation_end
    IN  SelectSeq(d, Keep)

validation_df(d, cur) ==
    LET validation_start == cur + Timedelta(TRAINING_DAY)
        validation_end == cur + Timedelta(SPLIT_PER_DAY)
        Keep(row) == OpenTime(row) >= validation_start /\ CloseTime(row) < validation_end
    IN  SelectSeq(d, Keep)

\* df[col].min() and df[col].max() over rows lo..hi of a non-empty frame
RECURSIVE ColMin(_, _, _, _)
ColMin(d, col, lo, hi) ==
    IF lo = hi THEN d[lo][col]
    ELSE LET mid == (lo + hi) \div 2
             l == ColMin(d, col, lo, mid)
             r == ColMin(d, col, mid + 1, hi)
         IN  IF l <= r THEN l ELSE r

RECURSIVE ColMax(_, _, _, _)
ColMax(d, col, lo, hi) ==
    IF lo = hi THEN d[lo][col]
    ELSE LET mid == (lo + hi) \div 2
             l == ColMax(d, col, lo, mid)
             r == ColMax(d, col, mid + 1, hi)
         IN  IF l >= r THEN l ELSE r

\* the while condition of line 73
LoopCond == current_date + Timedelta(SPLIT_PER_DAY) <= end_date

\* the step of line 90
NextCursor(cur) == cur + Timedelta(SPLIT_PER_DAY)

\* the right-hand sides of lines 86 and 87
MutAccumulateForgets(acc, slice) ==
    Plus(empty_dataset, sliding_window_sample_datapoints(slice))

Accumulate(acc, slice) ==
    Plus(acc, sliding_window_sample_datapoints(slice))

\* one iteration of the while loop, lines 73-90.  Line 86 raises TypeError
\* before line 87 runs; line 87 raises after training_data was rebound.
Iterate ==
    /\ pc = "loop"
    /\ LoopCond
    /\ cursors' = Append(cursors, current_date)
    /\ LET t == Accumulate(training_data, training_df(df, current_date))
       IN  IF t.type = "TypeError"
           THEN /\ pc' = "TypeError"
                /\ UNCHANGED << training_data, validation_data, current_date >>
           ELSE LET v == Accumulate(validation_data, validation_df(df, current_date))
                IN  IF v.type = "TypeError"
                    THEN /\ pc' = "TypeError"
                         /\ training_data' = t
                         /\ UNCHANGED << validation_data, current_date >>
                    ELSE /\ pc' = "loop"
                         /\ training_data' = t
                         /\ validation_data' = v
                         /\ current_date' = NextCursor(current_date)
    /\ UNCHANGED << df, start_date, end_date, samp_vars, add_vars >>

\* the loop exit and the return of line 93
Return ==
    /\ pc = "loop"
    /\ ~LoopCond
    /\ pc' = "done"
    /\ UNCHANGED << df, training_data, validation_data, start_date, end_date,
                    current_date, cursors, samp_vars, add_vars >>

---------------------------------------------------------------------------
(* Inputs *)

\* the first bar opens on a day boundary well after the epoch
T0 == Timedelta(19000)

MaxExtra == 2
Intervals == { 15 * 60, 60 * 60 }
FirstDays == { 0, SPLIT_PER_DAY }
LastDays == { 1, SPLIT_PER_DAY, 2 * SPLIT_PER_DAY }
Modes == { "touch", "early", "earlyLastFull" }

\* Bar k (1-based) of a gap-free sequence: n1 bars every i1 seconds, then n2
\* bars every i2 seconds.  "touch": a bar closes when the next opens; "early":
\* one second before; "earlyLastFull": as early, but the last bar closes a
\* full interval after it opens.  The price cells 4k .. 4k+3 identify the bar.
GenRow(k, n, i1, n1, i2, mode) ==
    LET open == IF k <= n1 THEN T0 + (k - 1) * i1
                ELSE T0 + n1 * i1 + (k - 1 - n1) * i2
        step == IF k <= n1 THEN i1 ELSE i2
        early == IF mode = "touch" \/ (mode = "earlyLastFull" /\ k = n) THEN 0 ELSE 1
    IN  << open, open + step - early, 4 * k, 4 * k + 1, 4 * k + 2, 4 * k + 3, -k >>

GenBars(i1, n1, i2, n2, mode) ==
    [k \in 1..(n1 + n2) |-> GenRow(k, n1 + n2, i1, n1, i2, mode)]

PerDay(i) == Timedelta(1) \div i

PartitionInputs ==
    { GenBars(i1, d1 * PerDay(i1), i2, d2 * PerDay(i2) - 1 + extra, mode) :
        i1 \in Intervals, d1 \in FirstDays, i2 \in Intervals, d2 \in LastDays,
        extra \in 0..MaxExtra, mode \in Modes }

\* the bar with price cell p in its first price column
BarOfCell(p) == p \div 4

MaxSurplus == 8
MaxLen == BAR_PER_DATAPOINT + MaxSurplus
MaxOff == 1
BaseBars == GenBars(15 * 60, MaxLen + MaxOff + STRIDE * 4, 15 * 60, 0, "early")

SamplerInputs ==
    { iloc(BaseBars, off, off + len) : off \in 0..MaxOff, len \in 0..MaxLen }

MaxPoolN == 2
DatasetPool ==
    { empty_dataset } \cup
    { sliding_window_sample_datapoints(
          iloc(BaseBars, off, off + BAR_PER_DATAPOINT + STRIDE * (n - 1))) :
        off \in 0..MaxOff, n \in 1..MaxPoolN }

---------------------------------------------------------------------------
(* Harnesses of the two pure operations *)

None == [type |-> "None"]

CallSampler ==
    /\ s_pc = "call"
    /\ s_ret' = sliding_window_sample_datapoints(s_df)
    /\ s_pc' = "returned"
    /\ UNCHANGED << s_df, part_vars, add_vars >>

CallAdd ==
    /\ a_pc = "call"
    /\ a_left' = << Plus(a_A, a_B), Plus(Plus(a_A, a_B), a_C) >>
    /\ a_right' = << Plus(a_B, a_C), Plus(a_A, Plus(a_B, a_C)) >>
    /\ a_pc' = "returned"
    /\ UNCHANGED << a_A, a_B, a_C, part_vars, samp_vars >>

---------------------------------------------------------------------------
(* Specifications *)

PartIdle ==
    /\ df = << >> /\ training_data = None /\ validation_data = None
    /\ start_date = 0 /\ end_date = 0 /\ current_date = 0
    /\ pc = "idle" /\ cursors = << >>

SampIdle == s_df = << >> /\ s_ret = None /\ s_pc = "idle"

AddIdle ==
    /\ a_A = None /\ a_B = None /\ a_C = None
    /\ a_left = None /\ a_right = None /\ a_pc = "idle"

\* split_train_validation up to the head of the while loop, lines 60-71
Init ==
    /\ df \in PartitionInputs
    /\ training_data = empty_dataset
    /\ validation_data = empty_dataset
    /\ start_date = ColMin(df, 1, 1, Len(df))
    /\ end_date = ColMax(df, 2, 1, Len(df))
    /\ current_date = start_date
    /\ pc = "loop"
    /\ cursors = << >>
    /\ SampIdle /\ AddIdle

Next == Iterate \/ Return

Spec == Init /\ [][Next]_vars

SamplerInit ==
    /\ s_df \in SamplerInputs
    /\ s_ret = None
    /\ s_pc = "call"
    /\ PartIdle /\ AddIdle

SamplerNext == CallSampler

SamplerSpec == SamplerInit /\ [][SamplerNext]_vars

AddInit ==
    /\ a_A \in DatasetPool /\ a_B \in DatasetPool /\ a_C \in DatasetPool
    /\ a_left = None /\ a_right = None
    /\ a_pc = "call"
    /\ PartIdle /\ SampIdle

AddNext == CallAdd

AddSpec == AddInit /\ [][AddNext]_vars

---------------------------------------------------------------------------
(* Properties of sliding_window_sample_datapoints, under SamplerSpec *)

\* the number of samples a returned value holds
NumSamples(r) == IF r.type = "Dataset" THEN Len(r.X.data) ELSE Len(r.items)

\* the four price fields of a bar
PriceFields(row) == << row[3], row[4], row[5], row[6] >>

\* C1: on fewer than BAR_PER_DATAPOINT = 192 bars the sampler returns the
\* empty Dataset: a Dataset of size 0 whose X and Y have the shapes
\* (0, 176, 4) and (0, 16, 4), so that adding it to any Dataset raises nothing.
C1_ShortInputGivesEmptyDataset ==
    (s_pc = "returned" /\ Len(s_df) < BAR_PER_DATAPOINT) =>
        /\ s_ret.type = "Dataset"
        /\ s_ret = empty_dataset
        /\ \A d \in DatasetPool : Plus(d, s_ret) = d

\* C2: on L bars the sampler produces floor((L - 192) / 3) + 1 samples when
\* L >= 192 and none when L < 192 (so 192 bars give 1 sample, 191 give 0).
C2_SampleCount ==
    s_pc = "returned" =>
        /\ NumSamples(s_ret) =
              IF Len(s_df) >= 192 THEN (Len(s_df) - 192) \div 3 + 1 ELSE 0
        /\ Len(s_df) = 192 => NumSamples(s_ret) = 1
        /\ Len(s_df) = 191 => NumSamples(s_ret) = 0

C2_Witness ==
    /\ s_pc = "returned"
    /\ Len(s_df) = 192 + 2 * 3 + 2
    /\ NumSamples(s_ret) = 3

\* C3: sample k (0-based) has X[k] = the price fields of bars[3k : 3k+176]
\* and Y[k] = those of bars[3k+176 : 3k+192]: 176 and 16 rows, adjacent and
\* disjoint inside one 192-bar window, samples in increasing start order.
C3_WindowContents ==
    (s_pc = "returned" /\ s_ret.type = "Dataset") =>
        /\ Len(s_ret.X.data) = Len(s_ret.Y.data)
        /\ \A k \in 0..(Len(s_ret.X.data) - 1) :
              /\ 3 * k + 192 <= Len(s_df)
              /\ s_ret.X.data[k + 1] =
                    [j \in 1..176 |-> PriceFields(s_df[3 * k + j])]
              /\ s_ret.Y.data[k + 1] =
                    [j \in 1..16 |-> PriceFields(s_df[3 * k + 176 + j])]

C3_Witness ==
    /\ s_pc = "returned"
    /\ s_ret.type = "Dataset"
    /\ Len(s_ret.X.data) = 3
    /\ s_ret.Y.data[3][16] = PriceFields(s_df[Len(s_df)])

---------------------------------------------------------------------------
(* Properties of Dataset.__add__, under AddSpec *)

\* a_left = << A + B, (A + B) + C >> and a_right = << B + C, A + (B + C) >>

InOrder(ab, x, y) ==
    /\ Len(ab.data) = Len(x.data) + Len(y.data)
    /\ ab.shape[1] = Len(ab.data)
    /\ \A i \in 1..Len(x.data) : ab.data[i] = x.data[i]
    /\ \A i \in 1..Len(y.data) : ab.data[Len(x.data) + i] = y.data[i]

\* C9: (A + B) + C equals A + (B + C) element for element in X and in Y, and
\* A + B has size Na + Nb, A's samples before B's, X and Y in lockstep.
C9_AddAssociative ==
    a_pc = "returned" =>
        /\ a_left[2].type = "Dataset"
        /\ a_left[2].X = a_right[2].X
        /\ a_left[2].Y = a_right[2].Y
        /\ InOrder(a_left[1].X, a_A.X, a_B.X)
        /\ InOrder(a_left[1].Y, a_A.Y, a_B.Y)
        /\ Len(a_left[1].X.data) = Len(a_left[1].Y.data)
        /\ Len(a_left[2].X.data) = Len(a_left[2].Y.data)

C9_Witness ==
    /\ a_pc = "returned"
    /\ Len(a_A.X.data) = 2 /\ Len(a_B.X.data) = 1 /\ Len(a_C.X.data) = 2
    /\ a_A.X.data[1] # a_B.X.data[1]
    /\ Len(a_left[2].X.data) = 5

---------------------------------------------------------------------------
(* Properties of split_train_validation, under Spec *)

\* iterations that ran to line 90: a raise leaves the last one unfinished
Completed == IF pc = "TypeError" THEN Len(cursors) - 1 ELSE Len(cursors)

\* the number of k >= 0 with start + 23 (k + 1) days <= end
NumCompleteBlocks == (end_date - start_date) \div Timedelta(23)

\* the bars (row numbers of df) whose price fields make up one sample
SampleBars(x, y) ==
    { BarOfCell(x[j][1]) : j \in 1..Len(x) } \cup { BarOfCell(y[j][1]) : j \in 1..Len(y) }

\* the rows of df a slice holds
Ids(slice) == { BarOfCell(slice[i][3]) : i \in 1..Len(slice) }

\* 15-minute bars without gaps: each opens 15 minutes after the one before
\* and closes after it opens, no later than the next one opens
GapFree15(d) ==
    \A i \in 1..Len(d) :
        /\ OpenTime(d[i]) = OpenTime(d[1]) + (i - 1) * 900
        /\ OpenTime(d[i]) < CloseTime(d[i])
        /\ CloseTime(d[i]) <= OpenTime(d[i]) + 900

OneBlockOf15MinBars ==
    /\ pc = "done"
    /\ GapFree15(df)
    /\ end_date - start_date = Timedelta(23)

\* C4 as stated: such a sequence is processed as one block with 1920
\* training bars giving 577 samples and 288 validation bars giving 33.
C4_Original ==
    OneBlockOf15MinBars =>
        /\ Len(cursors) = 1
        /\ Len(training_df(df, cursors[1])) = 20 * 96
        /\ NumSamples(training_data) = 577
        /\ Len(validation_df(df, cursors[1])) = 3 * 96
        /\ NumSamples(validation_data) = 33

\* C4, amended: the bar closing exactly at the block end is left out, so the
\* validation sub-range holds 287 bars and gives 32 samples; the training
\* sub-range holds 1919 bars and gives 576 samples when the bar before the
\* seam closes on the seam, 1920 bars and 577 samples when it closes earlier.
C4_OneBlockCounts ==
    OneBlockOf15MinBars =>
        LET onSeam == CloseTime(df[20 * 96]) = start_date + Timedelta(20)
        IN  /\ Len(cursors) = 1
            /\ cursors[1] = start_date
            /\ Len(validation_df(df, cursors[1])) = 3 * 96 - 1
            /\ NumSamples(validation_data) = 32
            /\ Len(training_df(df, cursors[1])) = IF onSeam THEN 1919 ELSE 1920
            /\ NumSamples(training_data) = IF onSeam THEN 576 ELSE 577

C4_Witness ==
    /\ OneBlockOf15MinBars
    /\ Len(df) = 23 * 96
    /\ NumSamples(training_data) = 576
    /\ NumSamples(validation_data) = 32

\* C5: every sample of the training Dataset is made of 192 bars that all
\* have open_time >= cursor and close_time < cursor + 20 days for one block's
\* cursor; every validation sample of 192 bars with open_time >= cursor + 20
\* days and close_time < cursor + 23 days for one block's cursor.
WithinOneSpan(data, k, from, to) ==
    LET bars == SampleBars(data.X.data[k], data.Y.data[k])
    IN  /\ Cardinality(bars) = 192
        /\ \E b \in 1..Len(cursors) :
              \A i \in bars :
                  /\ OpenTime(df[i]) >= cursors[b] + Timedelta(from)
                  /\ CloseTime(df[i]) < cursors[b] + Timedelta(to)

C5_NoSampleCrossesSeam ==
    /\ \A k \in 1..NumSamples(training_data) : WithinOneSpan(training_data, k, 0, 20)
    /\ \A k \in 1..NumSamples(validation_data) : WithinOneSpan(validation_data, k, 20, 23)

C5_Witness ==
    /\ pc = "done"
    /\ Len(cursors) = 2
    /\ NumSamples(training_data) > 577
    /\ NumSamples(validation_data) > 33
    /\ \E i \in 1..Len(df) : CloseTime(df[i]) = cursors[1] + Timedelta(20)

\* C6: over all blocks walked, every bar is selected into at most one of the
\* training and validation slices, and a bar whose close_time equals a seam
\* (cursor + 20 days) or a block end (cursor + 23 days) is in no slice.
C6_SlicesDisjoint ==
    LET n == Len(cursors)
        T == [b \in 1..n |-> training_df(df, cursors[b])]
        V == [b \in 1..n |-> validation_df(df, cursors[b])]
        TI == [b \in 1..n |-> Ids(T[b])]
        VI == [b \in 1..n |-> Ids(V[b])]
        all == UNION { TI[b] \cup VI[b] : b \in 1..n }
    IN  /\ \A b \in 1..n : /\ Cardinality(TI[b]) = Len(T[b])
                           /\ Cardinality(VI[b]) = Len(V[b])
        /\ \A b, c \in 1..n : /\ TI[b] \cap VI[c] = {}
                              /\ b # c => TI[b] \cap TI[c] = {} /\ VI[b] \cap VI[c] = {}
        /\ \A i \in 1..Len(df) :
              (\E b \in 1..n : \/ CloseTime(df[i]) = cursors[b] + Timedelta(20)
                               \/ CloseTime(df[i]) = cursors[b] + Timedelta(23))
                  => i \notin all

C6_Witness ==
    /\ Len(cursors) = 2
    /\ pc = "done"
    /\ \E i \in 1..Len(df) : CloseTime(df[i]) = cursors[1] + Timedelta(20)
    /\ \E i \in 1..Len(df) : CloseTime(df[i]) = cursors[2] + Timedelta(23)
    /\ Len(validation_df(df, cursors[2])) > 0

\* C7 as stated: when the partitioner stops it has processed exactly the
\* blocks starting at start + 23k days for every k with start + 23(k+1) days
\* <= end, in increasing k; no bar of the trailing remainder is in a sample;
\* and a sequence spanning less than 23 days gives two empty Datasets
\* without error.
C7_Original ==
    pc \in {"done", "TypeError"} =>
        /\ SubSeq(cursors, 1, Completed) =
              [k \in 1..NumCompleteBlocks |-> start_date + Timedelta(23) * (k - 1)]
        /\ \A k \in 1..NumSamples(training_data) :
              \A i \in SampleBars(training_data.X.data[k], training_data.Y.data[k]) :
                  CloseTime(df[i]) < start_date + Timedelta(23) * NumCompleteBlocks
        /\ \A k \in 1..NumSamples(validation_data) :
              \A i \in SampleBars(validation_data.X.data[k], validation_data.Y.data[k]) :
                  CloseTime(df[i]) < start_date + Timedelta(23) * NumCompleteBlocks
        /\ end_date - start_date < Timedelta(23) =>
              /\ pc = "done"
              /\ training_data = empty_dataset
              /\ validation_data = empty_dataset

\* C8: at the head of the loop and at the return, after n iterations, the
\* training Dataset is sample(train_slice_1), ..., sample(train_slice_n) laid
\* end to end in X and in Y, the validation Dataset likewise, and each size
\* is the sum of the per-block counts.
RECURSIVE LaidEndToEnd(_, _)
LaidEndToEnd(parts, n) ==
    IF n = 0 THEN << >> ELSE LaidEndToEnd(parts, n - 1) \o parts[n]

RECURSIVE SumOf(_, _)
SumOf(counts, n) == IF n = 0 THEN 0 ELSE SumOf(counts, n - 1) + counts[n]

IsLaidEndToEnd(data, parts, n) ==
    /\ data.X.data = LaidEndToEnd([b \in 1..n |-> parts[b].X.data], n)
    /\ data.Y.data = LaidEndToEnd([b \in 1..n |-> parts[b].Y.data], n)
    /\ data.X.shape[1] = SumOf([b \in 1..n |-> NumSamples(parts[b])], n)
    /\ data.Y.shape[1] = data.X.shape[1]

C8_AccumulationInOrder ==
    pc \in {"loop", "done"} =>
        LET n == Len(cursors)
            ts == [b \in 1..n |-> sliding_window_sample_datapoints(training_df(df, cursors[b]))]
            vs == [b \in 1..n |-> sliding_window_sample_datapoints(validation_df(df, cursors[b]))]
        IN  /\ IsLaidEndToEnd(training_data, ts, n)
            /\ IsLaidEndToEnd(validation_data, vs, n)

C8_Witness ==
    /\ pc = "done"
    /\ Len(cursors) = 3
    /\ NumSamples(training_data) = 3 * 576
    /\ NumSamples(validation_data) = 3 * 32

\* C10 as stated: an iteration over a complete block whose training or
\* validation sub-range has fewer than 192 bars adds no sample for that
\* split, keeps what was accumulated, and moves on to the next block.
C10_Original ==
    [][ LET shortT == Len(training_df(df, current_date)) < 192
            shortV == Len(validation_df(df, current_date)) < 192
        IN  (pc = "loop" /\ LoopCond /\ (shortT \/ shortV)) =>
                /\ pc' = "loop"
                /\ current_date' = NextCursor(current_date)
                /\ shortT => training_data' = training_data
                /\ shortV => validation_data' = validation_data ]_vars

=============================================================================
